---- MODULE Spec2Model ----
(***************************************************************************)
(* A model of p1-lib.c: the P1 telegram framer (read_telegram), the CRC    *)
(* check (crc_telegram), the P1 session (telegram_parser_open / _read /    *)
(* _close) and the IEC 62056-21 "D0" session (telegram_parser_open_d0 /    *)
(* _read_d0).                                                              *)
(*                                                                         *)
(* Every read() and every checked write() of the source is one step, so    *)
(* that the byte stream, timeouts (read returns 0) and errors (read        *)
(* returns -1) are chosen by the environment one call at a time.           *)
(***************************************************************************)
EXTENDS Integers, Sequences, FiniteSets, TLC

VARIABLES
    pc,             \* position in the running function
    buf,            \* the memory at obj->buffer: index -> byte (or Undef)
    bufsize,        \* read_telegram: bufsize
    maxfailbytes,   \* read_telegram: maxfailbytes
    telegram,       \* read_telegram: int telegram
    offset,         \* read_telegram: size_t offset
    failed,         \* read_telegram: size_t failed
    len,            \* read_telegram: ssize_t len
    ret,            \* value returned by read_telegram
    consumed,       \* history: bytes taken from the input by this call
    behind,         \* history: how far behind the buffer this call has stored
    stream,         \* the bytes still to arrive (scenario runs only)
    scenario,       \* how the input of a scenario run was composed
    fd,             \* obj->fd
    terminal,       \* obj->terminal
    buffer,         \* obj->buffer: "null", "heap" or "garbage" (never set)
    obj_bufsize,    \* obj->bufsize
    obj_len,        \* obj->len
    mode,           \* obj->mode
    status,         \* obj->status
    parser_crc16,          \* obj->parser.crc16
    dumpfile,       \* obj->dumpfile: "null", "file" or "garbage" (never set)
    newtio,         \* obj->newtio: the attributes the session works with
    port,           \* the attributes the device is configured with
    rc,             \* the value the last API call returned
    idx,            \* telegram_parser_read_d0: unsigned long idx
    zeroRun,        \* history: zero-length P1 reads in a row (3: three or more)
    runStart,       \* history: the port's baud rate before that run
    closeLog,       \* history: closes so far (2: two or more), what the last released
    entryMode,      \* history: obj->mode when the running D0 read was called
    idLine,         \* history: the identification line was received whole
    log,            \* history: what the running call did on the device
    sessionBytes    \* history: bytes the D0 reads of the session have taken

rtVars == <<buf, bufsize, maxfailbytes, telegram, offset, failed, len, ret,
            consumed, behind>>

objVars == <<fd, terminal, buffer, obj_bufsize, obj_len, mode, status, parser_crc16,
             dumpfile, newtio, port>>

histVars == <<zeroRun, runStart, closeLog>>

d0Vars == <<idx, entryMode, idLine, log, sessionBytes>>

vars == <<pc, rtVars, stream, scenario, objVars, rc, histVars, d0Vars>>

-----------------------------------------------------------------------------
(* Bytes *)

Slash == 47
Bang == 33
CR == 13
LF == 10
Zero == 48
\* The content of a cell nobody has stored to since it was allocated, or that
\* is left over from a discarded candidate: an indeterminate value.
Undef == 256

\* How many bytes of the input the environment delivers to one call at most.
MaxConsumed == 17

\* The largest buffer of the framer runs; the smallest has 8 bytes.
MaxBuf == 8

BufSizes == 8..MaxBuf

\* The bytes read_telegram tells apart: '/', '!' and '\r'.  Every other byte
\* takes the branches '\r' takes outside the trailer and '/' takes inside it.
FramerBytes == {Slash, Bang, CR}

\* The bytes delivered to the reads behind a '!': the framer asks of them
\* only whether they are '\r'.
TrailerBytes == {CR, LF}

\* What one read(fd, p, 1) can give: <<1, byte>>, <<0, _>> (end of stream or
\* timeout) or <<-1, _>> (error).
ReadResults(bytes) == {<<1, b>> : b \in bytes} \cup {<<0, 0>>, <<-1, 0>>}

Max(a, b) == IF a >= b THEN a ELSE b

\* After a store to buf[i]: the number of cells behind the bufsize cells of the
\* buffer that have been stored to (0: every store was inside the buffer).
StoredAt(i) == Max(behind, i - bufsize + 1)

\* Memory at and behind the buffer: bufsize cells of the allocation and the
\* cells the source can reach behind it.
Memory(bs) == [i \in 0..(bs + 5) |-> Undef]

-----------------------------------------------------------------------------
(* read_telegram *)

IsStart(tg, byte) == ~tg /\ byte = Slash

IsContent(tg, off, bs) == tg /\ off < bs

\* IsOverflow with the full buffer taken for a buffer with room.
IsOverflowLate(off, bs) == off > bs

IsOverflow(off, bs) == off >= bs

IsOldStyle(l, b) == l = 2 /\ b = CR

\* IsNewStyle without the test of the byte before the last.
IsNewStyleAnyByte(l, b) == l = 4

IsNewStyle(l, b) == l = 4 /\ b = CR

KeepGoing(l, f, m) == l > 0 /\ (m = 0 \/ f < m)

\* The end of one pass of the do-while loop: its condition.
EndIter(l, f) ==
    IF KeepGoing(l, f, maxfailbytes)
    THEN pc' = "rt_read" /\ ret' = ret
    ELSE pc' = "rt_done" /\ ret' = 0

\* The candidate is dropped: failed += n, offset = 0, telegram = 0.  The cells
\* keep their bytes in the source; no path reads them before storing to them
\* again, and the model forgets them.
Restart(n, l) ==
    /\ failed' = failed + n
    /\ offset' = 0
    /\ telegram' = FALSE
    /\ buf' = Memory(bufsize)
    /\ EndIter(l, failed + n)

\* The call: the locals of lines 48-51.  What the buffer holds on entry is
\* indeterminate to the call.
RT_Enter(bs, m) ==
    /\ buf' = Memory(bs)
    /\ bufsize' = bs
    /\ maxfailbytes' = m
    /\ telegram' = FALSE
    /\ offset' = 0
    /\ failed' = 0
    /\ len' = 0
    /\ ret' = 0
    /\ consumed' = 0
    /\ behind' = 0
    /\ pc' = "rt_read"

\* The caller has taken the result: the locals are gone.
RT_Leave ==
    /\ telegram' = FALSE
    /\ offset' = 0
    /\ failed' = 0
    /\ len' = 0
    /\ ret' = 0
    /\ consumed' = 0
    /\ behind' = 0

\* One read of the loop's first statement and the branch it takes.
RT_Read(r) ==
    /\ pc = "rt_read"
    /\ len' = r[1]
    /\ consumed' = consumed + (IF r[1] > 0 THEN 1 ELSE 0)
    /\ UNCHANGED <<bufsize, maxfailbytes>>
    /\ IF r[1] > 0 /\ IsStart(telegram, r[2]) THEN
            /\ telegram' = TRUE
            /\ buf' = [buf EXCEPT ![offset] = r[2]]
            /\ behind' = StoredAt(offset)
            /\ offset' = offset + 1
            /\ failed' = failed
            /\ EndIter(r[1], failed)
       ELSE IF r[1] > 0 /\ IsContent(telegram, offset, bufsize) THEN
            /\ buf' = [buf EXCEPT ![offset] = r[2]]
            /\ behind' = StoredAt(offset)
            /\ offset' = offset + 1
            /\ UNCHANGED <<telegram, failed>>
            /\ IF r[2] = Bang
               THEN pc' = "rt_t1" /\ ret' = ret
               ELSE EndIter(r[1], failed)
       ELSE IF r[1] > 0 /\ IsOverflow(offset, bufsize) THEN
            /\ Restart(offset, r[1])
            /\ UNCHANGED behind
       ELSE /\ UNCHANGED <<telegram, buf, behind, offset, failed>>
            /\ EndIter(r[1], failed)

\* A read into buf[offset + k] whose result is added to len (or starts it).
TrailerRead(r, k, first) ==
    /\ len' = (IF first THEN 0 ELSE len) + r[1]
    /\ consumed' = consumed + (IF r[1] > 0 THEN 1 ELSE 0)
    /\ IF r[1] > 0
       THEN /\ buf' = [buf EXCEPT ![offset + k] = r[2]]
            /\ behind' = StoredAt(offset + k)
       ELSE UNCHANGED <<buf, behind>>

RT_T1(r) ==
    /\ pc = "rt_t1"
    /\ TrailerRead(r, 0, TRUE)
    /\ pc' = "rt_t2"
    /\ UNCHANGED <<bufsize, maxfailbytes, telegram, offset, failed, ret>>

RT_T2(r) ==
    /\ pc = "rt_t2"
    /\ UNCHANGED <<bufsize, maxfailbytes>>
    /\ LET l == len + r[1] IN
       IF l = 2 /\ IsOldStyle(l, buf[offset]) THEN
            /\ TrailerRead(r, 1, FALSE)
            /\ pc' = "rt_done"
            /\ ret' = offset + l
            /\ UNCHANGED <<telegram, offset, failed>>
       ELSE IF l = 2 THEN
            /\ TrailerRead(r, 1, FALSE)
            /\ offset' = offset + l
            /\ pc' = "rt_c1"
            /\ UNCHANGED <<telegram, failed, ret>>
       ELSE /\ len' = l
            /\ consumed' = consumed + (IF r[1] > 0 THEN 1 ELSE 0)
            /\ behind' = (IF r[1] > 0 THEN StoredAt(offset + 1) ELSE behind)
            /\ Restart(offset + l, l)

\* The reads of lines 77-79: the first three bytes of the CRC field.
RT_CRead(r, k, here, next) ==
    /\ pc = here
    /\ TrailerRead(r, k, k = 0)
    /\ pc' = next
    /\ UNCHANGED <<bufsize, maxfailbytes, telegram, offset, failed, ret>>

RT_C1(r) == RT_CRead(r, 0, "rt_c1", "rt_c2")

RT_C2(r) == RT_CRead(r, 1, "rt_c2", "rt_c3")

RT_C3(r) == RT_CRead(r, 2, "rt_c3", "rt_c4")

\* The read of line 80 and the test of line 81.
RT_C4(r) ==
    /\ pc = "rt_c4"
    /\ UNCHANGED <<bufsize, maxfailbytes>>
    /\ LET l == len + r[1] IN
       IF IsNewStyle(l, buf[offset + 2]) THEN
            /\ TrailerRead(r, 3, FALSE)
            /\ pc' = "rt_done"
            /\ ret' = offset + l
            /\ UNCHANGED <<telegram, offset, failed>>
       ELSE /\ len' = l
            /\ consumed' = consumed + (IF r[1] > 0 THEN 1 ELSE 0)
            /\ behind' = (IF r[1] > 0 THEN StoredAt(offset + 3) ELSE behind)
            /\ Restart(offset + l, l)

\* One step of read_telegram on the read result r.
RT_Step(r) ==
    \/ RT_Read(r)
    \/ RT_T1(r)
    \/ RT_T2(r)
    \/ RT_C1(r)
    \/ RT_C2(r)
    \/ RT_C3(r)
    \/ RT_C4(r)

\* What the environment can deliver to the next read of this call.
Deliverable(bytes) ==
    IF consumed < MaxConsumed THEN ReadResults(bytes) ELSE {<<0, 0>>, <<-1, 0>>}

-----------------------------------------------------------------------------
(* The session object *)

ModeP == 80

B115200 == 115200
B9600 == 9600
B300 == 300

\* A field of the object nobody has stored to: an indeterminate value.
Garbage == [baud |-> Undef, fmt |-> "garbage"]

\* The attributes the device had before the session configured it.
Prior == [baud |-> B9600, fmt |-> "prior"]

\* A telegram_parser object as the caller declares it: no field is set.
NoSession ==
    /\ fd = Undef
    /\ terminal = Undef
    /\ buffer = "garbage"
    /\ obj_bufsize = Undef
    /\ obj_len = Undef
    /\ mode = Undef
    /\ status = Undef
    /\ parser_crc16 = Undef
    /\ dumpfile = "garbage"
    /\ newtio = Garbage
    /\ port = Prior
    /\ rc = 0
    /\ zeroRun = 0
    /\ runStart = 0
    /\ closeLog = [n |-> 0, did |-> {}]
    /\ idx = 0
    /\ entryMode = Undef
    /\ idLine = FALSE
    /\ log = <<>>
    /\ sessionBytes = 0

-----------------------------------------------------------------------------
(* read_telegram called on its own, with any bufsize >= 8 and any cap *)

NoScenario == [n |-> 0, first |-> <<>>, tele |-> <<>>]

FramerCaps(bs) == {0, 1, bs}

InitFramer ==
    /\ pc = "rt_call"
    /\ bufsize \in BufSizes
    /\ buf = Memory(bufsize)
    /\ maxfailbytes \in FramerCaps(bufsize)
    /\ telegram = FALSE
    /\ offset = 0
    /\ failed = 0
    /\ len = 0
    /\ ret = 0
    /\ consumed = 0
    /\ behind = 0
    /\ stream = <<>>
    /\ scenario = NoScenario
    /\ NoSession

FramerCall ==
    /\ pc = "rt_call"
    /\ RT_Enter(bufsize, maxfailbytes)
    /\ UNCHANGED <<stream, scenario, objVars, rc, histVars, d0Vars>>

InputAt(at) == IF at = "rt_read" THEN FramerBytes ELSE TrailerBytes

FramerRead ==
    /\ \E r \in Deliverable(InputAt(pc)) : RT_Step(r)
    /\ UNCHANGED <<stream, scenario, objVars, rc, histVars, d0Vars>>

NextFramer == FramerCall \/ FramerRead

SpecFramer == InitFramer /\ [][NextFramer]_vars

-----------------------------------------------------------------------------
(* read_telegram on a truncated candidate followed by a telegram (S5) *)

\* Telegrams: '/' body '!' and "\r\n" or four hex digits and "\r\n".
Telegrams ==
    { <<Slash, Bang, CR, LF>>,
      <<Slash, Zero, Bang, CR, LF>>,
      <<Slash, Bang, Zero, Zero, Zero, Zero, CR, LF>>,
      <<Slash, LF, Zero, Bang, Zero, Zero, Zero, Zero, CR, LF>> }

\* The bytes of the first candidate behind its '/': none is '!'.
CandidateBytes == {LF, Slash}

\* The first candidate holds '/' and n further bytes: one byte short of
\* exceeding the buffer (the next byte to arrive is then the telegram's '/'),
\* or exceeding it by one or two bytes.
CandidateLengths(bs) == (bs - 1)..(bs + 1)

S5Caps(bs) == {0, bs, bs + 1}

InitS5 ==
    /\ pc = "rt_call"
    /\ bufsize \in BufSizes
    /\ buf = Memory(bufsize)
    /\ maxfailbytes \in S5Caps(bufsize)
    /\ telegram = FALSE
    /\ offset = 0
    /\ failed = 0
    /\ len = 0
    /\ ret = 0
    /\ consumed = 0
    /\ behind = 0
    /\ \E n \in CandidateLengths(bufsize) :
       \E c \in [1..n -> CandidateBytes] :
       \E t \in Telegrams :
          /\ scenario = [n |-> n, first |-> <<Slash>> \o c, tele |-> t]
          /\ stream = <<Slash>> \o c \o t
    /\ NoSession

S5Call ==
    /\ pc = "rt_call"
    /\ RT_Enter(bufsize, maxfailbytes)
    /\ UNCHANGED <<stream, scenario, objVars, rc, histVars, d0Vars>>

\* The next read takes the head of the stream; behind its end read returns 0.
S5Read ==
    /\ RT_Step(IF stream = <<>> THEN <<0, 0>> ELSE <<1, Head(stream)>>)
    /\ stream' = (IF stream = <<>> THEN stream ELSE Tail(stream))
    /\ UNCHANGED <<scenario, objVars, rc, histVars, d0Vars>>

NextS5 == S5Call \/ S5Read

SpecS5 == InitS5 /\ [][NextS5]_vars

-----------------------------------------------------------------------------
(* crc16 and the grammar: collaborators of the library *)

RECURSIVE XorBits(_, _, _)
XorBits(a, b, n) ==
    IF n = 0 THEN 0
    ELSE ((a + b) % 2) + 2 * XorBits(a \div 2, b \div 2, n - 1)

Xor16(a, b) == XorBits(a, b, 16)

\* CRC-16/ARC: polynomial 0xA001 (reflected), initial value 0, no final XOR.
Poly == 40961

RECURSIVE Crc16Shift(_, _)
Crc16Shift(crc, n) ==
    IF n = 0 THEN crc
    ELSE Crc16Shift(IF crc % 2 = 1 THEN Xor16(crc \div 2, Poly) ELSE crc \div 2,
                    n - 1)

RECURSIVE Crc16From(_, _, _, _)
Crc16From(crc, data, i, n) ==
    IF i >= n THEN crc
    ELSE Crc16From(Crc16Shift(Xor16(crc, data[i]), 8), data, i + 1, n)

crc16(data, length) == Crc16From(0, data, 0, length)

\* What parser_finish can report: final state reached, not reached, error.
ParserStatus == {1, 0, -1}

\* What the grammar can leave in parser.crc16 for a framed telegram: nothing
\* (0, also the value of the hex digits "0000"), the value crc16 gives for the
\* bytes up to the '!', or another value.
ParserCrcs(data, length) ==
    IF length >= 7 /\ data[length - 7] = Bang /\ data[length - 3] # Bang
    THEN {0, crc16(data, length - 6), (crc16(data, length - 6) + 1) % 65536}
    ELSE {0}

-----------------------------------------------------------------------------
(* crc_telegram *)

crc_telegram(data, length) ==
    IF data[length - 3] = Bang THEN 0
    ELSE IF length >= 7 /\ data[length - 7] = Bang THEN crc16(data, length - 6)
    ELSE 0

-----------------------------------------------------------------------------
(* telegram_parser_open, telegram_parser_close *)

FdOpen == 3

\* How many bytes the environment delivers to one read call of a session.
MaxSessionBytes == 9

\* The attributes telegram_parser_open sets on a serial device.
P1Attributes == [baud |-> B115200, fmt |-> "8N1"]

\* telegram_parser_open.  infile: "none" (NULL), "fails" (open fails), "file"
\* (tcgetattr fails) or "tty"; dump: "none" (NULL), "fails" or "ok"; alloc:
\* whether malloc succeeds.  The call returns at the first failure and leaves
\* the fields behind it as they are.
OpenFields(infile, dump, alloc, bs) ==
    /\ status' = 0
    /\ parser_crc16' = 0
    /\ obj_len' = 0
    /\ fd' = (IF infile \in {"file", "tty"} THEN FdOpen ELSE -1)
    /\ terminal' = (IF infile = "tty" THEN 1 ELSE 0)
    /\ dumpfile' = (IF infile = "fails" THEN dumpfile
                    ELSE IF dump = "ok" THEN "file" ELSE "null")
    /\ buffer' = (IF infile # "fails" /\ dump # "fails" /\ alloc
                  THEN "heap" ELSE "null")
    /\ obj_bufsize' = (IF infile # "fails" /\ dump # "fails" /\ alloc
                       THEN bs ELSE 0)

OpenResult(infile, dump, alloc) ==
    IF infile = "fails" THEN -2
    ELSE IF dump = "fails" THEN -3
    ELSE IF ~alloc THEN -4
    ELSE 0

\* The bufsize the P1 sessions are opened with.
P1BufSizes == {8}

Infiles == {"none", "fails", "file", "tty"}

Dumps == {"none", "fails", "ok"}

\* Lines 147-159 and 185: the attributes of a serial device, and the mode.
OpenPort(infile, dump, alloc) ==
    /\ newtio' = (IF infile = "tty" THEN P1Attributes ELSE newtio)
    /\ port' = (IF infile = "tty" THEN P1Attributes ELSE port)
    /\ mode' = (IF OpenResult(infile, dump, alloc) = 0 THEN ModeP ELSE mode)

telegram_parser_open ==
    /\ pc = "new"
    /\ \E infile \in Infiles, dump \in Dumps, alloc \in BOOLEAN, bs \in P1BufSizes :
        /\ OpenFields(infile, dump, alloc, bs)
        /\ OpenPort(infile, dump, alloc)
        /\ rc' = OpenResult(infile, dump, alloc)
    /\ pc' = "idle"
    /\ UNCHANGED <<rtVars, stream, scenario, histVars, d0Vars>>

\* Line 197: the buffer is there to free.
HasBuffer(bs, b) == bs # 0 /\ b # "null"

\* HasFd that takes the -1 of a closed session for a descriptor.
HasFdNonZero(f) == f # 0

\* Line 203: the descriptor is there to close.
HasFd(f) == f > 0

\* Line 211: what the test of obj->dumpfile can find.  A handle nobody stored
\* to is indeterminate: it can be NULL, or not NULL and no open file.
DumpHandles(df) == IF df = "garbage" THEN {"null", "wild"} ELSE {df}

\* Line 212: fclose() returns, or on a handle that is no open file can end
\* the process.
FcloseOutcomes(df) == IF df = "wild" THEN {"idle", "crashed"} ELSE {"idle"}

telegram_parser_close ==
    /\ pc = "idle"
    /\ IF HasBuffer(obj_bufsize, buffer)
       THEN buffer' = "null" /\ obj_bufsize' = 0 /\ obj_len' = 0
       ELSE UNCHANGED <<buffer, obj_bufsize, obj_len>>
    /\ IF HasFd(fd)
       THEN /\ port' = (IF terminal # 0 THEN Prior ELSE port)
            /\ fd' = -1
            /\ terminal' = 0
       ELSE UNCHANGED <<port, fd, terminal>>
    /\ \E df \in DumpHandles(dumpfile) :
        /\ pc' \in FcloseOutcomes(df)
        /\ closeLog' =
            [n |-> IF closeLog.n < 2 THEN closeLog.n + 1 ELSE 2,
             did |-> (IF HasBuffer(obj_bufsize, buffer) THEN {"free"} ELSE {})
                     \cup (IF HasFd(fd) /\ terminal # 0 THEN {"tcsetattr"} ELSE {})
                     \cup (IF HasFd(fd) THEN {"close"} ELSE {})
                     \cup (IF df = "file" THEN {"fclose"} ELSE {})
                     \cup (IF df = "wild" THEN {"fclose_wild"} ELSE {})]
    /\ dumpfile' = "null"
    /\ rc' = 0
    /\ UNCHANGED <<rtVars, stream, scenario, mode, status, parser_crc16,
                   newtio, zeroRun, runStart, d0Vars>>

-----------------------------------------------------------------------------
(* telegram_parser_read *)

\* OtherBaud stuck at the lower rate.
OtherBaudStuck(b) == B9600

\* Lines 264-267: the other baud rate of the probe.
OtherBaud(b) == IF b = B115200 THEN B9600 ELSE B115200

\* Line 275: the CRC error.
CrcError(reported, crc) == reported # 0 /\ reported # crc

\* Lines 224-238: the guards, and the call of read_telegram with the cap
\* bufsize.  obj->len keeps its old value until line 238 stores the result;
\* nothing reads it in between, and the model clears it with the call.
ReadCall ==
    /\ pc = "idle"
    /\ IF buffer = "null" \/ obj_bufsize = 0 THEN
            /\ rc' = -2
            /\ UNCHANGED <<pc, rtVars, parser_crc16, obj_len>>
       ELSE IF fd <= 0 THEN
            /\ rc' = -3
            /\ UNCHANGED <<pc, rtVars, parser_crc16, obj_len>>
       ELSE /\ parser_crc16' = 0
            /\ obj_len' = 0
            /\ RT_Enter(obj_bufsize, obj_bufsize)
            /\ rc' = Undef
    /\ UNCHANGED <<stream, scenario, fd, terminal, buffer, obj_bufsize,
                   mode, status, dumpfile, newtio, port, histVars, d0Vars>>

\* The reads of read_telegram inside telegram_parser_read.
ReadStepWithin(n) ==
    /\ \E r \in (IF consumed < n
                 THEN ReadResults(InputAt(pc)) ELSE {<<0, 0>>, <<-1, 0>>}) :
          RT_Step(r)
    /\ UNCHANGED <<stream, scenario, objVars, rc, histVars, d0Vars>>

ReadStep == ReadStepWithin(MaxSessionBytes)

\* Lines 238-280: what follows the return of read_telegram.
ReadReturn ==
    /\ pc = "rt_done"
    /\ obj_len' = ret
    /\ \E st \in ParserStatus, reported \in ParserCrcs(buf, ret) :
        /\ status' = (IF ret # 0 THEN st ELSE status)
        /\ parser_crc16' = (IF ret # 0 THEN reported ELSE parser_crc16)
        /\ LET crc == IF ret # 0 /\ st = 1 THEN crc_telegram(buf, ret) ELSE 0
           IN  rc' = (IF CrcError(parser_crc16', crc) THEN -4 ELSE 0)
    /\ IF terminal # 0 /\ ret = 0 /\ mode = ModeP
       THEN /\ newtio' = [newtio EXCEPT !.baud = OtherBaud(newtio.baud)]
            /\ port' = newtio'
       ELSE UNCHANGED <<newtio, port>>
    /\ IF terminal # 0 /\ mode = ModeP /\ ret = 0
       THEN /\ zeroRun' = (IF zeroRun < 3 THEN zeroRun + 1 ELSE 3)
            /\ runStart' = (IF zeroRun = 0 THEN port.baud ELSE runStart)
       ELSE /\ zeroRun' = 0
            /\ runStart' = 0
    /\ UNCHANGED closeLog
    /\ pc' = "idle"
    /\ RT_Leave
    /\ UNCHANGED <<buf, bufsize, maxfailbytes, stream, scenario, fd, terminal,
                   buffer, obj_bufsize, mode, dumpfile, d0Vars>>

InitP1 ==
    /\ pc = "new"
    /\ bufsize = 0
    /\ buf = Memory(0)
    /\ maxfailbytes = 0
    /\ telegram = FALSE
    /\ offset = 0
    /\ failed = 0
    /\ len = 0
    /\ ret = 0
    /\ consumed = 0
    /\ behind = 0
    /\ stream = <<>>
    /\ scenario = NoScenario
    /\ NoSession

NextP1 ==
    \/ telegram_parser_open
    \/ ReadCall
    \/ ReadStep
    \/ ReadReturn
    \/ telegram_parser_close

SpecP1 == InitP1 /\ [][NextP1]_vars

-----------------------------------------------------------------------------
(* telegram_parser_open_d0, telegram_parser_read_d0 *)

LetterA == 65
LetterZ == 90
Two == 50
Backslash == 92
Tilde == 126
UnitSep == 31

B600 == 600
B1200 == 1200
B2400 == 2400
B4800 == 4800
B19200 == 19200

ModeA == 65
ModeB == 66
ModeC == 67
ModeE == 69

\* The attributes telegram_parser_open_d0 sets.
D0Attributes == [baud |-> B300, fmt |-> "7E1"]

\* The bufsize the D0 sessions are opened with.
D0BufSizes == {10}

\* telegram_parser_open_d0: telegram_parser_open, and when that returned 0
\* the D0 attributes (set on the device if it is a terminal) and mode 0.
telegram_parser_open_d0 ==
    /\ pc = "new"
    /\ \E infile \in Infiles, dump \in Dumps, alloc \in BOOLEAN, bs \in D0BufSizes :
        /\ OpenFields(infile, dump, alloc, bs)
        /\ rc' = OpenResult(infile, dump, alloc)
        /\ IF OpenResult(infile, dump, alloc) = 0
           THEN /\ newtio' = D0Attributes
                /\ port' = (IF infile = "tty" THEN D0Attributes ELSE port)
                /\ mode' = 0
           ELSE OpenPort(infile, dump, alloc)
    /\ pc' = "idle"
    /\ UNCHANGED <<rtVars, stream, scenario, histVars, d0Vars>>

Event(e, a) == [ev |-> e, arg |-> a]

\* A read() that returned r has taken a byte from the input, or none.
Taken(r) ==
    /\ consumed' = consumed + (IF r[1] > 0 THEN 1 ELSE 0)
    /\ sessionBytes' = sessionBytes + (IF r[1] > 0 THEN 1 ELSE 0)

\* The bytes a D0 session takes from its input.
MaxD0Bytes == 11

\* After a store to buffer[i]: the cells behind the buffer stored to.
D0StoredAt(i) == Max(behind, i - obj_bufsize + 1)

\* How many of the 65 wake-up NULs are written before a write fails.
NulCounts == {0, 65}

\* RunsHandshake without the test of the mode.
RunsHandshakeAnyMode(t, md) == t # 0

\* RunsHandshake for a session whose mode is not resolved yet only.
RunsHandshakeOnce(t, md) == t # 0 /\ md = 0

\* Line 322: the handshake runs on a serial device whose mode is not 'P'.
RunsHandshake(t, md) == t # 0 /\ md # ModeP

\* Lines 314-344: the guards, the wake-up and the sign-on.  signon: whether
\* write() takes the whole sign-on sequence.
ReadD0Call ==
    /\ pc = "idle"
    /\ fd <= 0 \/ buffer = "heap"
    /\ entryMode' = mode
    /\ idLine' = FALSE
    /\ idx' = 0
    /\ buf' = Memory(obj_bufsize)
    /\ behind' = 0
    /\ telegram' = FALSE
    /\ consumed' = 0
    /\ IF fd <= 0 THEN
            /\ rc' = -2
            /\ log' = <<>>
            /\ UNCHANGED pc
       ELSE IF RunsHandshake(terminal, mode) THEN
            \E n \in NulCounts, signon \in BOOLEAN :
                IF signon
                THEN /\ log' = <<Event("nul", n), Event("signon", 0)>>
                     /\ pc' = "d0_id0"
                     /\ rc' = Undef
                ELSE /\ log' = <<Event("nul", n)>>
                     /\ rc' = -3
                     /\ UNCHANGED pc
       ELSE /\ log' = <<>>
            /\ pc' = "d0_body"
            /\ rc' = Undef
    /\ UNCHANGED <<bufsize, maxfailbytes, offset, failed, len, ret, stream,
                   scenario, objVars, histVars, sessionBytes>>

\* Lines 348-358: the first byte of the identification string.
ReadD0First(r) ==
    /\ pc = "d0_id0"
    /\ Taken(r)
    /\ IF r[1] > 0
       THEN buf' = [buf EXCEPT ![0] = r[2]] /\ behind' = D0StoredAt(0)
       ELSE UNCHANGED <<buf, behind>>
    /\ IF r[1] < 0 THEN rc' = -4 /\ pc' = "idle"
       ELSE IF r[1] = 0 \/ r[2] # Slash THEN rc' = -5 /\ pc' = "idle"
       ELSE pc' = "d0_id" /\ UNCHANGED rc
    /\ UNCHANGED <<bufsize, maxfailbytes, telegram, offset, failed, len, ret,
                   stream, scenario, objVars, histVars, idx, entryMode, idLine, log>>

\* Lines 362-365: one pass of the loop that reads the identification string.
ReadD0Id(r) ==
    /\ pc = "d0_id"
    /\ idx' = idx + 1
    /\ Taken(r)
    /\ IF r[1] > 0
       THEN buf' = [buf EXCEPT ![idx + 1] = r[2]] /\ behind' = D0StoredAt(idx + 1)
       ELSE UNCHANGED <<buf, behind>>
    /\ IF idx + 1 < obj_bufsize /\ r[1] = 1 /\ r[2] # LF
       THEN pc' = "d0_id" /\ UNCHANGED idLine
       ELSE pc' = "d0_classify" /\ idLine' = (r[1] = 1 /\ r[2] = LF)
    /\ UNCHANGED <<bufsize, maxfailbytes, telegram, offset, failed, len, ret,
                   stream, scenario, objVars, rc, histVars, entryMode, log>>

\* SwitchBaud with the rates of '5' and '6' exchanged.
SwitchBaudSwapped(b) ==
    CASE b \in {65, 48} -> B300
      [] b \in {66, 49} -> B600
      [] b \in {67, 50} -> B1200
      [] b \in {68, 51} -> B2400
      [] b \in {69, 52} -> B4800
      [] b \in {70, 53} -> B19200
      [] b \in {71, 54} -> B9600
      [] OTHER -> B300

\* Lines 376-411: the baud rate the switch selects.
SwitchBaud(b) ==
    CASE b \in {65, 48} -> B300
      [] b \in {66, 49} -> B600
      [] b \in {67, 50} -> B1200
      [] b \in {68, 51} -> B2400
      [] b \in {69, 52} -> B4800
      [] b \in {70, 53} -> B9600
      [] b \in {71, 54} -> B19200
      [] OTHER -> B300

\* Lines 376-416: the mode the switch stores over the 0 of line 372.
IsModeA(b) == b >= 32 /\ b # Slash /\ b # Bang /\ b <= 126

SwitchMode(b) ==
    IF b \in 65..71 THEN ModeB
    ELSE IF b \in 48..54 THEN 0
    ELSE IF IsModeA(b) THEN ModeA
    ELSE 0

\* Lines 426-434: the mode of a meter whose mode is still 0.
PendingMode(b5) == IF b5 = Backslash THEN ModeE ELSE ModeC

\* IsHdlc that never finds the sub-protocol.
IsHdlcNever(b5, b6) == FALSE

\* Line 428: the HDLC sub-protocol.
IsHdlc(b5, b6) == b5 = Backslash /\ b6 = Two

\* The values a cell can hold: its byte, or for a cell that was not stored to
\* any of these.
StaleBytes == {LF, Backslash, Two, 53}

Cell(m, i) == IF m[i] = Undef THEN StaleBytes ELSE {m[i]}

\* Lines 367-459: the identification string is classified.
ReadD0Classify ==
    /\ pc = "d0_classify"
    /\ LET m == IF idx < obj_bufsize - 1 THEN [buf EXCEPT ![idx + 1] = 0] ELSE buf
       IN
       \E last \in Cell(m, idx), b4 \in Cell(m, 4), b5 \in Cell(m, 5),
          b6 \in Cell(m, 6) :
          IF last = LF /\ m[idx - 1] = CR THEN
              LET md == SwitchMode(b4)
                  baudrate == SwitchBaud(b4)
              IN
              IF md = 0 /\ IsHdlc(b5, b6) THEN
                  /\ mode' = ModeE
                  /\ rc' = -8
                  /\ pc' = "idle"
                  /\ buf' = m
                  /\ UNCHANGED <<newtio, port, log>>
              ELSE
                  /\ mode' = (IF md = 0 THEN PendingMode(b5) ELSE md)
                  /\ newtio' = (IF mode' # ModeA
                                THEN [newtio EXCEPT !.baud = baudrate] ELSE newtio)
                  /\ port' = (IF mode' # ModeA THEN newtio' ELSE port)
                  /\ log' = log
                            \o (IF md = 0 THEN <<Event("ack", b4)>> ELSE <<>>)
                            \o (IF mode' # ModeA
                                THEN <<Event("baud", baudrate)>> ELSE <<>>)
                  /\ buf' = m
                  /\ pc' = "d0_body"
                  /\ UNCHANGED rc
          ELSE
              /\ mode' = 0
              /\ rc' = -6
              /\ pc' = "idle"
              /\ buf' = (IF idx < obj_bufsize - 1 THEN m ELSE [m EXCEPT ![idx] = 0])
              /\ UNCHANGED <<newtio, port, log>>
    /\ behind' = (IF idx < obj_bufsize - 1 THEN D0StoredAt(idx + 1)
                  ELSE IF rc' = -6 THEN D0StoredAt(idx)
                  ELSE behind)
    /\ UNCHANGED <<bufsize, maxfailbytes, telegram, offset, failed, len, ret,
                   consumed, stream, scenario, fd, terminal, buffer, obj_bufsize,
                   obj_len, status, parser_crc16, dumpfile, histVars, idx,
                   entryMode, idLine, sessionBytes>>

\* Line 487: the test for a byte that ends the read with -9.
IsAbort(b) == b < 32 \/ b < 126

\* SignsOff without the test for the '!'.
SignsOffAnyEnd(found, t, md) == t # 0 /\ md # ModeP

\* Line 499: the sign-off is written after a '!' on a serial device whose
\* mode is not 'P'.
SignsOff(found, t, md) == found /\ t # 0 /\ md # ModeP

\* Lines 499-519: the sign-off, and the grammar on what was read.
D0Finish(found, n) ==
    /\ log' = log \o (IF SignsOff(found, terminal, mode)
                      THEN <<Event("signoff", 0)>> ELSE <<>>)
    /\ obj_len' = n
    /\ \E st \in ParserStatus : status' = st
    /\ rc' = 0
    /\ pc' = "idle"

\* Lines 464-495: the guard for a buffer that is too small, and one pass of
\* the loop that reads the telegram.  The pass at pc = "d0_body" is the first.
ReadD0Body(r) ==
    /\ pc \in {"d0_body", "d0_more"}
    /\ LET at == IF pc = "d0_body" THEN idx + 1 ELSE idx IN
       IF pc = "d0_body" /\ at >= obj_bufsize - 1 THEN
            /\ rc' = -7
            /\ pc' = "idle"
            /\ idx' = at
            /\ UNCHANGED <<buf, behind, consumed, sessionBytes, telegram, log,
                           obj_len, status>>
       ELSE
            /\ Taken(r)
            /\ IF r[1] > 0
               THEN buf' = [buf EXCEPT ![at] = r[2]] /\ behind' = D0StoredAt(at)
               ELSE UNCHANGED <<buf, behind>>
            /\ IF r[1] <= 0 THEN
                    /\ idx' = at
                    /\ D0Finish(FALSE, at)
                    /\ UNCHANGED telegram
               ELSE IF r[2] = Bang THEN
                    /\ idx' = at
                    /\ telegram' = TRUE
                    /\ D0Finish(TRUE, at)
               ELSE IF IsAbort(r[2]) THEN
                    /\ idx' = at
                    /\ rc' = -9
                    /\ pc' = "idle"
                    /\ UNCHANGED <<telegram, log, obj_len, status>>
               ELSE IF at + 1 < obj_bufsize THEN
                    /\ idx' = at + 1
                    /\ pc' = "d0_more"
                    /\ UNCHANGED <<telegram, log, obj_len, status, rc>>
               ELSE /\ idx' = at + 1
                    /\ D0Finish(FALSE, at + 1)
                    /\ UNCHANGED telegram
    /\ UNCHANGED <<bufsize, maxfailbytes, offset, failed, len, ret, stream,
                   scenario, fd, terminal, buffer, obj_bufsize, mode,
                   parser_crc16, dumpfile, newtio, port, histVars, entryMode,
                   idLine>>

\* The bytes the meter sends, by the place they are read to: three bytes of
\* the manufacturer's tag, the baud rate and mode identifier, and what follows.
Byte4Set == (65..71) \cup (48..54) \cup {LetterZ, UnitSep, Slash, Bang, LF}

D0Input(at, i) ==
    IF at = "d0_id0" THEN {Slash, LetterA}
    ELSE IF at = "d0_id" THEN
        (CASE i + 1 \in 1..2 -> {LetterA}
           [] i + 1 = 3 -> {LetterA, CR}
           [] i + 1 = 4 -> Byte4Set
           [] i + 1 = 5 -> {Backslash, CR}
           [] i + 1 = 6 -> {Two, LF, CR}
           [] OTHER -> {CR, LF})
    ELSE {Bang, Tilde, LetterA, UnitSep}

ReadD0StepWithin(n) ==
    \E r \in (IF sessionBytes < n
              THEN ReadResults(D0Input(pc, idx)) ELSE {<<0, 0>>, <<-1, 0>>}) :
        \/ ReadD0First(r)
        \/ ReadD0Id(r)
        \/ ReadD0Body(r)

ReadD0Step == ReadD0StepWithin(MaxD0Bytes)

InitD0 == InitP1

NextD0 ==
    \/ telegram_parser_open_d0
    \/ ReadD0Call
    \/ ReadD0Step
    \/ ReadD0Classify
    \/ telegram_parser_close

SpecD0 == InitD0 /\ [][NextD0]_vars

-----------------------------------------------------------------------------
(* telegram_parser_read and telegram_parser_read_d0 in any order on a session
   opened with telegram_parser_open.  No read of the identification string
   is ever entered there, and its classification is left out of the steps. *)

\* The bytes the environment delivers to one telegram_parser_read, and to
\* the telegram_parser_read_d0 calls of the session.
MaxMixedBytes == 4

InitMixed == InitP1

MixedReadStep == ReadStepWithin(MaxMixedBytes)

MixedReadD0Step == ReadD0StepWithin(MaxMixedBytes)

NextMixed ==
    \/ telegram_parser_open
    \/ ReadCall
    \/ MixedReadStep
    \/ ReadReturn
    \/ ReadD0Call
    \/ MixedReadD0Step
    \/ telegram_parser_close

SpecMixed == InitMixed /\ [][NextMixed]_vars

-----------------------------------------------------------------------------
(* Claims on read_telegram *)

\* C1: read_telegram stores no byte at a buffer index >= bufsize, and every
\* length it returns is <= bufsize.
C1_StoresStayInside ==
    /\ behind = 0
    /\ (pc = "rt_done" => ret <= bufsize)

\* C2: when read_telegram returns len > 0, buf[0] is '/', buf[len-2] is
\* '\r' and buf[len-3] or buf[len-7] is '!'.
C2_ReturnedShape ==
    (pc = "rt_done" /\ ret > 0) =>
        /\ buf[0] = Slash
        /\ buf[ret - 2] = CR
        /\ \/ buf[ret - 3] = Bang
           \/ (ret >= 7 /\ buf[ret - 7] = Bang)

\* A new-style telegram has been returned.
C2_NewStyleReturned ==
    /\ pc = "rt_done"
    /\ ret >= 8
    /\ buf[ret - 7] = Bang
    /\ buf[ret - 3] # Bang

\* C3: with max_fail_bytes = M > 0, a call that returns 0 has consumed at
\* most M + bufsize + 7 bytes.
C3_ConsumedBound ==
    (pc = "rt_done" /\ ret = 0 /\ maxfailbytes > 0) =>
        consumed <= maxfailbytes + bufsize + 7

AfterDrop == SubSeq(scenario.first, bufsize + 2, Len(scenario.first))

NoSlashIn(q) == \A i \in 1..Len(q) : q[i] # Slash

C20_JunkCounted ==
    [][(/\ pc = "rt_read"
        /\ ~telegram
        /\ consumed' = consumed + 1
        /\ ~telegram') => failed' = failed + 1]_vars

-----------------------------------------------------------------------------
(* Claims on telegram_parser_read *)

\* A read_telegram that returns to telegram_parser_read with a new-style
\* telegram in the buffer.
NewStyleFramed ==
    /\ pc = "rt_done"
    /\ ret >= 8
    /\ buf[ret - 7] = Bang
    /\ buf[ret - 3] # Bang

\* C4: for a new-style telegram, whatever status the grammar reports,
\* telegram_parser_read returns -4 exactly when the CRC the grammar reported
\* differs from the CRC-16 over the bytes up to and with the '!', and 0 when
\* they are equal.
C4_CrcVerdict ==
    [][(NewStyleFramed /\ pc' = "idle") =>
        /\ rc' = -4 <=> parser_crc16' # crc16(buf, ret - 6)
        /\ rc' = 0 <=> parser_crc16' = crc16(buf, ret - 6)]_vars

\* The state at the return of a telegram_parser_read on a serial device in
\* mode 'P', the session still open.
AfterProbe == pc = "idle" /\ fd > 0 /\ terminal # 0 /\ mode = ModeP

\* C5 as stated: after two zero-length reads in a row that started at 115200
\* baud the port is at 9600 baud.
C5_TwoZeroReadsOpposite ==
    (AfterProbe /\ zeroRun = 2 /\ runStart = B115200) => port.baud = B9600

\* C5 as amended: every zero-length read moves the port to the other of the
\* two rates, so that after one the port is at the opposite rate (9600 from
\* 115200) and after two in a row it is back at the rate it started from.
C5_ZeroReadsToggle ==
    AfterProbe =>
        /\ port.baud \in {B9600, B115200}
        /\ zeroRun = 1 => port.baud # runStart
        /\ zeroRun = 2 => port.baud = runStart

\* Two zero-length reads in a row from 115200 baud have returned.
C5_TwoZeroReads ==
    AfterProbe /\ zeroRun = 2 /\ runStart = B115200 /\ port.baud = B115200

\* C13: telegram_parser_read returns 0 only when read_telegram framed a
\* telegram in the call, and a negative code when read_telegram gave up.
C13_ZeroOnlyWithTelegram ==
    [][(pc = "rt_done" /\ pc' = "idle") =>
        /\ rc' = 0 => ret > 0
        /\ ret = 0 => rc' < 0]_vars

-----------------------------------------------------------------------------
(* Claims on telegram_parser_read_d0 *)

ResolvedModes == {ModeA, ModeB, ModeC, ModeE}

\* A telegram_parser_read_d0 on a serial device, called with a resolved mode
\* in obj->mode, is running or has returned.
LaterRead == pc # "new" /\ fd > 0 /\ terminal # 0 /\ entryMode \in ResolvedModes

Events(l) == {l[i].ev : i \in 1..Len(l)}

\* C6 as stated: a read called with a resolved mode writes no wake-up NULs
\* and no sign-on sequence and reads no identification string.
C6_HandshakeSkipped ==
    LaterRead =>
        /\ Events(log) \cap {"nul", "signon"} = {}
        /\ pc \notin {"d0_id0", "d0_id", "d0_classify"}

\* C6 as amended: a read called with a resolved mode runs the handshake
\* again: it writes the wake-up NULs, then the sign-on sequence (or returns
\* -3), and reads an identification string before any telegram byte.
C6_HandshakeRepeated ==
    LaterRead =>
        /\ Len(log) >= 1 /\ log[1].ev = "nul"
        /\ (Len(log) = 1 => (pc = "idle" /\ rc = -3))
        /\ (Len(log) >= 2 => log[2].ev = "signon")
        /\ pc \in {"d0_body", "d0_more"} => (Len(log) >= 2 /\ idx >= 1)

\* A read called with a resolved mode has read an identification line.
C6_SecondHandshake == LaterRead /\ pc = "d0_classify" /\ idLine

\* An identification line that starts with '/' and ends with "\r\n" has been
\* read and is about to be classified.
IdLineRead ==
    /\ pc = "d0_classify"
    /\ idLine
    /\ buf[0] = Slash
    /\ buf[idx - 1] = CR

DigitBaud == <<B300, B600, B1200, B2400, B4800, B9600, B19200>>

\* C7: for an identification line that starts with '/' and ends with "\r\n",
\* a digit '0'..'6' at byte 4 with no backslash at byte 5 has the ACK
\* {0x06,'0',byte4,'0','\r','\n'} written, the baud set to 300, 600, 1200,
\* 2400, 4800, 9600 or 19200 and mode 'C' stored; a letter 'A'..'G' has no
\* ACK written, the baud of the corresponding digit set and mode 'B' stored.
C7_DecodeTable ==
    [][IdLineRead =>
        /\ (buf[4] \in 48..54 /\ buf[5] # Backslash) =>
            /\ log' = log \o <<Event("ack", buf[4]),
                              Event("baud", DigitBaud[buf[4] - 47])>>
            /\ port'.baud = DigitBaud[buf[4] - 47]
            /\ mode' = ModeC
        /\ buf[4] \in 65..71 =>
            /\ log' = log \o <<Event("baud", DigitBaud[buf[4] - 64])>>
            /\ port'.baud = DigitBaud[buf[4] - 64]
            /\ mode' = ModeB]_vars

\* The line "/AAA5\r\n" has been answered: ACK with '5', 9600 baud, mode 'C'.
C7_Digit5Answered ==
    /\ pc = "d0_body"
    /\ idLine
    /\ idx = 6
    /\ buf[4] = 53
    /\ mode = ModeC
    /\ port.baud = B9600
    /\ log[Len(log) - 1] = Event("ack", 53)

\* Byte 4 is none of 'A'..'G', '0'..'6' and the other printable bytes
\* without '/' and '!'.
OutOfTable(b) ==
    /\ b \notin 65..71
    /\ b \notin 48..54
    /\ b < 32 \/ b > 126 \/ b \in {Slash, Bang}

\* C8: for an identification line ending "\r\n" whose byte 4 is none of
\* 'A'..'G', '0'..'6' and the other printable bytes without '/' and '!', the
\* read returns a failure code, writes no ACK, leaves the baud rate alone and
\* stores no resolved mode.
C8_OutOfTableFails ==
    [][(IdLineRead /\ idx >= 6 /\ OutOfTable(buf[4])) =>
        /\ pc' = "idle"
        /\ rc' < 0
        /\ log' = log
        /\ port' = port
        /\ mode' \notin ResolvedModes]_vars

\* C9: with the mode pending after byte 4, a backslash at byte 5 and '2' at
\* byte 6, the read returns -8 with no ACK written, the baud rate unchanged
\* and no telegram byte read.
C9_HdlcRefused ==
    [][(/\ IdLineRead
        /\ idx >= 8
        /\ buf[4] \in 48..54 \/ OutOfTable(buf[4])
        /\ buf[5] = Backslash
        /\ buf[6] = Two) =>
            /\ pc' = "idle"
            /\ rc' = -8
            /\ log' = log
            /\ port' = port
            /\ newtio' = newtio
            /\ consumed' = consumed]_vars

\* The line "/AAA5\2\r\n" has been refused.
C9_Refused ==
    /\ pc = "idle"
    /\ rc = -8
    /\ idLine
    /\ idx = 8
    /\ buf[4] = 53
    /\ buf[5] = Backslash
    /\ buf[6] = Two
    /\ Events(log) = {"nul", "signon"}

-----------------------------------------------------------------------------
(* Claims on telegram_parser_close *)

\* C11: a telegram_parser_close on a session that was closed before leaves
\* every field as it is and releases nothing: it frees nothing, closes no
\* descriptor, restores no terminal attributes and closes no dump file.
C11_SecondCloseNoop ==
    [][(telegram_parser_close /\ closeLog.n >= 1) =>
        /\ objVars' = objVars
        /\ closeLog'.did = {}
        /\ pc' = "idle"]_vars

\* A session that held a buffer has been closed twice.
C11_ClosedTwice ==
    /\ pc = "idle"
    /\ closeLog.n = 2
    /\ closeLog.did = {}
    /\ mode = ModeP
    /\ buffer = "null"
    /\ fd = -1

\* C12: telegram_parser_close never passes to fclose() a dump file handle
\* that the open left unset.
C12_ReleasesOnlyAcquired == "fclose_wild" \notin closeLog.did

\* C14: on a session in mode 'P' no call of telegram_parser_read or
\* telegram_parser_read_d0 writes to the device (no wake-up NULs, no sign-on,
\* no ACK, no sign-off), and none changes the mode.
C14_NeverTransmits ==
    [][mode = ModeP => (mode' = ModeP /\ log' = <<>>)]_vars

\* A telegram_parser_read_d0 on a serial device in mode 'P' has read up to
\* the '!' and returned.
C14_BodyReadInModeP ==
    /\ pc = "idle"
    /\ rc = 0
    /\ telegram
    /\ terminal # 0
    /\ mode = ModeP
    /\ obj_len >= 1
    /\ log = <<>>

\* The buffer index a step of the body loop reads to.
BodyAt == IF pc = "d0_body" THEN idx + 1 ELSE idx

\* A step of the body loop of telegram_parser_read_d0 that received a byte.
BodyByteRead ==
    /\ pc \in {"d0_body", "d0_more"}
    /\ consumed' = consumed + 1

\* C15: a body byte other than '!' ends the read with -9 exactly when it is
\* below 0x20 or above 0x7e; any other is stored and the read goes on.
C15_AbortIffNotPrintable ==
    [][(BodyByteRead /\ buf'[BodyAt] # Bang) =>
        /\ rc' = -9 <=> (buf'[BodyAt] < 32 \/ buf'[BodyAt] > 126)
        /\ rc' # -9 => idx' = BodyAt + 1]_vars

\* C16: whenever the handshake has resolved to mode 'A', the port is at 300
\* baud while the telegram body is read.
C16_ModeAReadsAt300 ==
    (/\ pc \in {"d0_body", "d0_more"}
     /\ fd > 0
     /\ terminal # 0
     /\ mode = ModeA) => port.baud = B300

\* C17: telegram_parser_read_d0 stores no byte at an index >= bufsize: the
\* read of the identification string ends with idx at most bufsize - 1.
C17_D0StoresStayInside ==
    /\ pc \in {"d0_id0", "d0_id", "d0_classify", "d0_body", "d0_more"} =>
        behind = 0
    /\ pc = "d0_classify" => idx <= obj_bufsize - 1

\* The place of an event in the order of the handshake.
Rank(e) ==
    CASE e = "nul" -> 1
      [] e = "signon" -> 2
      [] e = "ack" -> 3
      [] e = "baud" -> 4
      [] e = "signoff" -> 5

\* C18: what a call does on the device comes in the order wake-up NULs,
\* sign-on, ACK, baud change, sign-off, and the sign-on is written only
\* after all 65 wake-up NULs were written.
C18_EventOrder ==
    /\ \A i \in 1..Len(log) : \A j \in 1..Len(log) :
        i < j => Rank(log[i].ev) < Rank(log[j].ev)
    /\ \A i \in 1..Len(log) :
        log[i].ev = "signon" => (i = 2 /\ log[1] = Event("nul", 65))

\* C19: a call writes the sign-off sequence, once, exactly when the body
\* read found the '!' on a serial device whose mode is not 'P'; it writes
\* none when the body read ended on a timeout, a read error, the full buffer
\* or the abort.
C19_SignOffIffTerminator ==
    [][(pc \in {"d0_body", "d0_more"} /\ pc' = "idle") =>
        /\ "signoff" \notin Events(log)
        /\ IF /\ BodyByteRead
              /\ buf'[BodyAt] = Bang
              /\ terminal # 0
              /\ mode # ModeP
           THEN log' = log \o <<Event("signoff", 0)>>
           ELSE log' = log]_vars

\* A read on a serial device has found the '!' after a handshake and has
\* signed off.
C19_SignedOff ==
    /\ pc = "idle"
    /\ rc = 0
    /\ telegram
    /\ terminal # 0
    /\ Len(log) >= 3
    /\ log[Len(log)] = Event("signoff", 0)

====
